---- MODULE Spec2Model ----
(***************************************************************************)
(* osgearth_viewer: main() configures the viewer from the command line and *)
(* the .earth file, registers the event handlers and control callbacks,    *)
(* and enters the viewer's main loop, where GUI events and control events  *)
(* are dispatched to the handlers.                                         *)
(*                                                                         *)
(* Library objects (manipulator, sky node, controls) are modelled by the   *)
(* calls this file makes on them: `ops' is the list of library calls made  *)
(* while the most recent event was dispatched.                             *)
(***************************************************************************)
EXTENDS Integers, Sequences, FiniteSets, TLC

VARIABLES
    argv,            \* the command line: the flags and the --kml file name
    earthFile,       \* what the .earth file named on the command line holds
    pc,              \* position of main()
    useAutoClip, useSky, kmlFile,          \* locals of main()
    earthNode, mapNode, viewpoints, root,  \* locals of main()
    s_manip, s_controlPanel, s_sky,        \* file-scope pointers
    s_dms, s_mgrs, s_ocean,                \* file-scope flags
    cameraManipulator, cullCallbacks, eventHandlers, skyAttached, \* the viewer
    vpHandlerViewpoints,                   \* ViewpointHandler::_viewpoints
    canvasControls, panelRows, panelSlider, visible, \* ControlCanvas, main VBox
    labelText,                             \* the mouse-coordinate LabelControl
    kmlRows,                               \* the KMLUIBuilder grid
    exitStatus, notice,                    \* main()'s return value, OE_NOTICE
    lastEvent, ops, handled, nullDeref,    \* the last dispatched event
    questionPresses,                       \* KEYDOWN '?' events so far, mod 2
    lastMotion                             \* what the last MOVE or DRAG pointed at

vars == <<argv, earthFile, pc, useAutoClip, useSky, kmlFile, earthNode, mapNode,
          viewpoints, root, s_manip, s_controlPanel, s_sky, s_dms, s_mgrs,
          s_ocean, cameraManipulator, cullCallbacks, eventHandlers,
          skyAttached, vpHandlerViewpoints, canvasControls, panelRows,
          panelSlider, visible, labelText, kmlRows, exitStatus, notice,
          lastEvent, ops, handled, nullDeref, questionPresses, lastMotion>>

(***************************************************************************)
(* Bounds.                                                                 *)
(***************************************************************************)
\* Most viewpoints an .earth file holds when every flag combination is tried.
MaxViewpoints == 2
\* Most viewpoints an .earth file holds in the keyboard specification.
ManyViewpoints == 70

(***************************************************************************)
(* Program constants.                                                      *)
(***************************************************************************)
NULL == "0L"
Key1 == 49          \* '1'
KeyV == 118         \* 'v'
KeyQuestion == 63   \* '?'
\* 4.5 seconds, in tenths of a second.
TransitionTenths == 45
UsageStatus == -1
SliderMin == 0
SliderMax == 24
LatPrecision == 4
LonPrecision == 5

(***************************************************************************)
(* The inputs: command lines and .earth files.                             *)
(***************************************************************************)
KmlNames == {"", "missing.kml", "doc.kml"}

Argvs == [autoclip : BOOLEAN, sky : BOOLEAN, ocean : BOOLEAN, dms : BOOLEAN,
          mgrs : BOOLEAN, kml : KmlNames]

\* The i-th distinct viewpoint; every second one has no name.
Vp(i) == i
VpName(vp) == IF vp % 2 = 0 THEN "" ELSE "named"

\* The viewpoint lists of n entries: in ascending and in descending order.
ViewpointLists(n) ==
    { [i \in 1..n |-> Vp(i)], [i \in 1..n |-> Vp(n + 1 - i)] }

NoFile == [loads |-> FALSE, hasMap |-> FALSE, geocentric |-> FALSE,
           sky |-> "none", autoclip |-> "none", viewpoints |-> <<>>]

NoMapFile == [NoFile EXCEPT !.loads = TRUE]

\* sky: whether the file has a <sky> external; autoclip: the text of its
\* <autoclip> external, "none" when it has none.
MapFiles(maxN) ==
    UNION { [loads : {TRUE}, hasMap : {TRUE}, geocentric : BOOLEAN,
             sky : {"none", "sky"},
             autoclip : {"none", "true", "false", "auto"},
             viewpoints : ViewpointLists(n)] : n \in 0..maxN }

EarthFiles(maxN) == {NoFile, NoMapFile} \cup MapFiles(maxN)

\* The annotation nodes KML::load yields for a file name; <<>> when it fails.
KmlPlacemarks(name) ==
    IF name = "doc.kml"
    THEN << [name |-> "", viewpoint |-> Vp(101), hasViewpoint |-> TRUE],
            [name |-> "pin", viewpoint |-> Vp(0), hasViewpoint |-> FALSE] >>
    ELSE << >>

KmlLoads(name) == name = "doc.kml"

\* The viewpoint grid of the control panel, by column: the number labels,
\* the name labels, and the viewpoint of each name label's click handler.
NoRows == [num |-> << >>, text |-> << >>, vp |-> << >>]

NoEvent == [kind |-> "none", type |-> "none", key |-> 0, pick |-> "none",
            arg |-> 0]

(***************************************************************************)
(* Init: the process has started, nothing of main() has run.               *)
(***************************************************************************)
InitRest ==
    /\ pc = "arguments"
    /\ useAutoClip = FALSE /\ useSky = FALSE /\ kmlFile = ""
    /\ earthNode = NULL /\ mapNode = NULL /\ viewpoints = << >> /\ root = << >>
    /\ s_manip = NULL /\ s_controlPanel = NULL /\ s_sky = NULL
    /\ s_dms = FALSE /\ s_mgrs = FALSE /\ s_ocean = FALSE
    /\ cameraManipulator = NULL /\ cullCallbacks = << >>
    /\ eventHandlers = << >> /\ skyAttached = FALSE
    /\ vpHandlerViewpoints = << >>
    /\ canvasControls = << >> /\ panelRows = NoRows /\ panelSlider = FALSE
    /\ visible = TRUE /\ labelText = << >> /\ kmlRows = << >>
    /\ exitStatus = 0 /\ notice = << >>
    /\ lastEvent = NoEvent /\ ops = << >> /\ handled = FALSE
    /\ nullDeref = FALSE /\ questionPresses = 0 /\ lastMotion = "none"

Init ==
    /\ argv \in Argvs
    /\ earthFile \in EarthFiles(MaxViewpoints)
    /\ InitRest

\* The keyboard specification: long viewpoint lists, the flags that do not
\* bear on key handling left off.
PlainArgvs == { a \in Argvs : ~a.autoclip /\ ~a.ocean /\ ~a.dms /\ ~a.mgrs }

PlainFiles(maxN) ==
    {NoFile, NoMapFile} \cup
    { f \in MapFiles(maxN) : f.geocentric /\ f.sky = "none"
                                /\ f.autoclip = "none" }

InitKeys ==
    /\ argv \in PlainArgvs
    /\ earthFile \in PlainFiles(ManyViewpoints)
    /\ (Len(earthFile.viewpoints) > MaxViewpoints => argv.kml = "")
    /\ InitRest

(***************************************************************************)
(* usage(): the notice lines and the status main() returns.                *)
(***************************************************************************)
usage(msg) ==
    [ notice |-> << msg, "",
                    "USAGE: osgearth_viewer [options] file.earth",
                    "   --sky           : activates the atmospheric model",
                    "   --autoclip      : activates the auto clip-plane handler",
                    "   --dms           : format coordinates as degrees/minutes/seconds",
                    "   --mgrs          : format coordinates as MGRS",
                    "   --ocean         : display an ocean surface layer, if found" >>,
      status |-> UsageStatus ]

(***************************************************************************)
(* main(), step by step.                                                   *)
(***************************************************************************)
events == <<lastEvent, ops, handled, nullDeref, questionPresses, lastMotion>>
inputs == <<argv, earthFile>>
statics == <<s_manip, s_controlPanel, s_sky, s_dms, s_mgrs, s_ocean>>
controls == <<canvasControls, panelRows, panelSlider, visible, labelText,
              kmlRows>>

\* arguments.read of the five flags and of --kml.
ReadArguments ==
    /\ pc = "arguments"
    /\ useAutoClip' = argv.autoclip
    /\ useSky' = argv.sky
    /\ s_ocean' = argv.ocean
    /\ s_dms' = argv.dms
    /\ s_mgrs' = argv.mgrs
    /\ kmlFile' = argv.kml
    /\ pc' = "load"
    /\ UNCHANGED <<inputs, earthNode, mapNode, viewpoints, root, s_manip,
                   s_controlPanel, s_sky, cameraManipulator, cullCallbacks,
                   eventHandlers, skyAttached, vpHandlerViewpoints, controls,
                   exitStatus, notice, events>>

\* LoadEarthFile without the return: the usage text is printed and main()
\* goes on.
LoadEarthFile_NoReturn ==
    /\ pc = "load"
    /\ earthNode' = IF earthFile.loads THEN "earthNode" ELSE NULL
    /\ IF earthNode' = NULL
       THEN /\ notice' = usage("Unable to load earth model.").notice
            /\ exitStatus' = usage("Unable to load earth model.").status
       ELSE UNCHANGED <<notice, exitStatus>>
    /\ pc' = "manipulator"
    /\ UNCHANGED <<inputs, useAutoClip, useSky, kmlFile, mapNode, viewpoints,
                   root, statics, cameraManipulator, cullCallbacks,
                   eventHandlers, skyAttached, vpHandlerViewpoints, controls,
                   events>>

\* osgDB::readNodeFiles, and the return through usage() when it yields no node.
LoadEarthFile ==
    /\ pc = "load"
    /\ earthNode' = IF earthFile.loads THEN "earthNode" ELSE NULL
    /\ IF earthNode' = NULL
       THEN /\ notice' = usage("Unable to load earth model.").notice
            /\ exitStatus' = usage("Unable to load earth model.").status
            /\ pc' = "exit"
       ELSE /\ UNCHANGED <<notice, exitStatus>>
            /\ pc' = "manipulator"
    /\ UNCHANGED <<inputs, useAutoClip, useSky, kmlFile, mapNode, viewpoints,
                   root, statics, cameraManipulator, cullCallbacks,
                   eventHandlers, skyAttached, vpHandlerViewpoints, controls,
                   events>>

\* new EarthManipulator, setCameraManipulator, the root group.
SetCameraManipulator ==
    /\ pc = "manipulator"
    /\ s_manip' = "EarthManipulator"
    /\ cameraManipulator' = s_manip'
    /\ root' = << earthNode >>
    /\ pc' = "mapNode"
    /\ UNCHANGED <<inputs, useAutoClip, useSky, kmlFile, earthNode, mapNode,
                   viewpoints, s_controlPanel, s_sky, s_dms, s_mgrs, s_ocean,
                   cullCallbacks, eventHandlers, skyAttached,
                   vpHandlerViewpoints, controls, exitStatus, notice,
                   events>>

\* Config::boolValue: the text as a boolean, the fallback when it is neither.
boolValue(text, fallback) ==
    IF text = "true" THEN TRUE
    ELSE IF text = "false" THEN FALSE
    ELSE fallback

\* SkyWanted with the flag overwritten by the external, not only raised.
SkyWanted_ExternalOnly(flag, file) == file.sky # "none"

\* useSky after the <sky> external is looked at.
SkyWanted(flag, file) == IF file.sky # "none" THEN TRUE ELSE flag

\* AutoClipWanted without the hasChild test and with false as the fallback.
AutoClipWanted_NoChildTest(flag, file) == boolValue(file.autoclip, FALSE)

\* useAutoClip after the <autoclip> external is looked at.
AutoClipWanted(flag, file) ==
    IF file.autoclip # "none" THEN boolValue(file.autoclip, flag) ELSE flag

\* findMapNode and, for a geocentric map, the sky, the ocean and the
\* auto clip-plane callback.
ConfigureMapNode ==
    /\ pc = "mapNode"
    /\ mapNode' = IF earthFile.hasMap THEN "mapNode" ELSE NULL
    /\ IF mapNode' = NULL
       THEN /\ pc' = "run"
            /\ UNCHANGED <<useSky, useAutoClip, s_sky, skyAttached,
                           root, cullCallbacks>>
       ELSE /\ pc' = "viewpoints"
            /\ IF earthFile.geocentric
               THEN /\ useSky' = SkyWanted(useSky, earthFile)
                    /\ IF useSky'
                       THEN /\ s_sky' = "SkyNode"
                            /\ skyAttached' = TRUE
                       ELSE UNCHANGED <<s_sky, skyAttached>>
                    /\ root' = root
                                \o (IF useSky' THEN << "SkyNode" >> ELSE << >>)
                                \o (IF s_ocean THEN << "oceanNode" >> ELSE << >>)
                    /\ useAutoClip' = AutoClipWanted(useAutoClip, earthFile)
                    /\ cullCallbacks' =
                          IF s_sky' # NULL \/ s_ocean \/ useAutoClip'
                          THEN Append(cullCallbacks, "AutoClipPlaneCallback")
                          ELSE cullCallbacks
               ELSE UNCHANGED <<useSky, useAutoClip, s_sky, skyAttached, root, cullCallbacks>>
    /\ UNCHANGED <<inputs, kmlFile, earthNode, viewpoints, s_manip,
                   s_controlPanel, s_dms, s_mgrs, s_ocean, cameraManipulator,
                   eventHandlers, vpHandlerViewpoints, controls, exitStatus,
                   notice, events>>

\* The viewpoint externals, in file order, and the ViewpointHandler.
ReadViewpoints ==
    /\ pc = "viewpoints"
    /\ viewpoints' = earthFile.viewpoints
    /\ IF Len(viewpoints') > 0
       THEN /\ vpHandlerViewpoints' = viewpoints'
            /\ eventHandlers' = Append(eventHandlers, "ViewpointHandler")
       ELSE UNCHANGED <<vpHandlerViewpoints, eventHandlers>>
    /\ pc' = "controlPanel"
    /\ UNCHANGED <<inputs, useAutoClip, useSky, kmlFile, earthNode, mapNode,
                   root, statics, cameraManipulator, cullCallbacks,
                   skyAttached, controls, exitStatus, notice,
                   events>>

RECURSIVE Decimal(_)
\* operator<<(unsigned): the decimal digits of n.
Decimal(n) == IF n < 10 THEN << n >> ELSE Append(Decimal(n \div 10), n % 10)

\* ViewpointRows with the rows numbered from 0.
ViewpointRows_NumberedFromZero(vps) ==
    [ num  |-> [ k \in 1..Len(vps) |-> LET i == k - 1 IN Decimal(i) ],
      text |-> [ k \in 1..Len(vps) |->
                   LET i == k - 1
                       vp == vps[i + 1]
                   IN  IF VpName(vp) = "" THEN "<no name>" ELSE VpName(vp) ],
      vp   |-> [ k \in 1..Len(vps) |-> LET i == k - 1 IN vps[i + 1] ] ]

\* The viewpoint grid: per row the number label and the name label with its
\* ClickViewpointHandler.
ViewpointRows(vps) ==
    [ num  |-> [ k \in 1..Len(vps) |-> LET i == k - 1 IN Decimal(i + 1) ],
      text |-> [ k \in 1..Len(vps) |->
                   LET i == k - 1
                       vp == vps[i + 1]
                   IN  IF VpName(vp) = "" THEN "<no name>" ELSE VpName(vp) ],
      vp   |-> [ k \in 1..Len(vps) |-> LET i == k - 1 IN vps[i + 1] ] ]

\* WantsControlPanel without the viewpoints test.
WantsControlPanel_SkyOnly(vps, sky) == sky # NULL

\* Whether main() builds the control panel.
WantsControlPanel(vps, sky) == Len(vps) > 0 \/ sky # NULL

\* The control canvas and createControlPanel.
AddControlPanel ==
    /\ pc = "controlPanel"
    /\ root' = Append(root, "ControlCanvas")
    /\ IF WantsControlPanel(viewpoints, s_sky)
       THEN /\ panelRows' = IF Len(viewpoints) > 0
                            THEN ViewpointRows(viewpoints) ELSE NoRows
            /\ panelSlider' = (s_sky # NULL)
            /\ canvasControls' = Append(canvasControls, "main")
            /\ s_controlPanel' = "main"
       ELSE UNCHANGED <<panelRows, panelSlider, canvasControls,
                        s_controlPanel>>
    /\ pc' = "mouseCoords"
    /\ UNCHANGED <<inputs, useAutoClip, useSky, kmlFile, earthNode, mapNode,
                   viewpoints, s_manip, s_sky, s_dms, s_mgrs, s_ocean,
                   cameraManipulator, cullCallbacks, eventHandlers,
                   skyAttached, vpHandlerViewpoints, visible, labelText,
                   kmlRows, exitStatus, notice, events>>

\* addMouseCoords: the label and the MouseCoordsHandler, whose constructor
\* calls mapNode->getTerrainEngine().
AddMouseCoords ==
    /\ pc = "mouseCoords"
    /\ canvasControls' = Append(canvasControls, "mouseCoords")
    /\ eventHandlers' = Append(eventHandlers, "MouseCoordsHandler")
    /\ nullDeref' = (nullDeref \/ mapNode = NULL)
    /\ pc' = "kml"
    /\ UNCHANGED <<inputs, useAutoClip, useSky, kmlFile, earthNode, mapNode,
                   viewpoints, root, statics, cameraManipulator, cullCallbacks,
                   skyAttached, vpHandlerViewpoints, panelRows, panelSlider,
                   visible, labelText, kmlRows, exitStatus, notice,
                   lastEvent, ops, handled, questionPresses, lastMotion>>

\* KMLUIBuilder::apply on the annotation nodes: a checkbox and a label, the
\* label clickable when the annotation has a viewpoint.
KmlUiRows(placemarks) ==
    [ k \in 1..Len(placemarks) |->
        [ checked |-> TRUE,
          text |-> IF placemarks[k].name = "" THEN "<unnamed>"
                   ELSE placemarks[k].name,
          clickable |-> placemarks[k].hasViewpoint,
          vp |-> placemarks[k].viewpoint ] ]

\* LoadKML with the KML grid stored in s_controlPanel.
LoadKML_StoresGridInPanel ==
    /\ pc = "kml"
    /\ IF kmlFile # "" /\ KmlLoads(kmlFile)
       THEN /\ root' = Append(root, "kml")
            /\ canvasControls' = Append(canvasControls, "kmlGrid")
            /\ kmlRows' = KmlUiRows(KmlPlacemarks(kmlFile))
            /\ s_controlPanel' = "kmlGrid"
       ELSE UNCHANGED <<root, canvasControls, kmlRows, s_controlPanel>>
    /\ pc' = "run"
    /\ UNCHANGED <<inputs, useAutoClip, useSky, kmlFile, earthNode, mapNode,
                   viewpoints, s_manip, s_sky, s_dms, s_mgrs, s_ocean,
                   cameraManipulator, cullCallbacks,
                   eventHandlers, skyAttached, vpHandlerViewpoints, panelRows,
                   panelSlider, visible, labelText, exitStatus,
                   notice, events>>

\* --kml: KML::load and the KML control grid.
LoadKML ==
    /\ pc = "kml"
    /\ IF kmlFile # "" /\ KmlLoads(kmlFile)
       THEN /\ root' = Append(root, "kml")
            /\ canvasControls' = Append(canvasControls, "kmlGrid")
            /\ kmlRows' = KmlUiRows(KmlPlacemarks(kmlFile))
       ELSE UNCHANGED <<root, canvasControls, kmlRows>>
    /\ pc' = "run"
    /\ UNCHANGED <<inputs, useAutoClip, useSky, kmlFile, earthNode, mapNode,
                   viewpoints, statics, cameraManipulator, cullCallbacks,
                   eventHandlers, skyAttached, vpHandlerViewpoints, panelRows,
                   panelSlider, visible, labelText, exitStatus,
                   notice, events>>

StockHandlers == << "StatsHandler", "WindowSizeHandler", "ThreadingHandler",
                    "LODScaleHandler", "StateSetManipulator" >>

\* setSceneData, the stock handlers, viewer.run().
RunViewer ==
    /\ pc = "run"
    /\ eventHandlers' = eventHandlers \o StockHandlers
    /\ pc' = "running"
    /\ UNCHANGED <<inputs, useAutoClip, useSky, kmlFile, earthNode, mapNode,
                   viewpoints, root, statics, cameraManipulator, cullCallbacks,
                   skyAttached, vpHandlerViewpoints, controls, exitStatus, notice, events>>

Startup ==
    \/ ReadArguments
    \/ LoadEarthFile
    \/ SetCameraManipulator
    \/ ConfigureMapNode
    \/ ReadViewpoints
    \/ AddControlPanel
    \/ AddMouseCoords
    \/ LoadKML
    \/ RunViewer

(***************************************************************************)
(* The events of the main loop.                                            *)
(***************************************************************************)
\* What lies under the mouse: nothing of the terrain, or a terrain point.
Picks == {"miss", "p1"}

\* worldPointToMapPoint of the first intersection: x longitude, y latitude.
MapPoint(pick) == [x |-> 10, y |-> 20]

\* The keys tried against a list of n viewpoints: '0', '1' .. '1'+n (one past
\* the list), '9', '?' and 'v'.
Keys(n) == ((Key1 - 1)..(Key1 + n)) \cup {Key1 + 8, KeyQuestion, KeyV}

GUIEvents(n) ==
    [kind : {"gui"}, type : {"KEYDOWN"}, key : Keys(n), pick : {"miss"},
     arg : {0}]
    \cup [kind : {"gui"}, type : {"KEYUP"}, key : {Key1, KeyQuestion, KeyV},
          pick : {"miss"}, arg : {0}]
    \cup [kind : {"gui"}, type : {"MOVE", "DRAG", "PUSH"}, key : {0},
          pick : Picks, arg : {0}]

\* The library calls a handler makes.
SetViewpoint(vp, tenths) ==
    [call |-> "setViewpoint", vp |-> vp, tenths |-> tenths]
StoreViewpoint == [call |-> "getViewpoint;store(cout)"]
SetVisible(b) == [call |-> "setVisible", value |-> b]
SetText(t) == [call |-> "setText", text |-> t]
SetDateTime(h) == [call |-> "setDateTime", hours |-> h]
SetNodeMask(k, m) == [call |-> "setNodeMask", node |-> k, mask |-> m]

\* ClickViewpointHandler::onClick.
ClickViewpointHandler_onClick(_vp, manip) ==
    [ ops |-> << SetViewpoint(_vp, TransitionTenths) >>,
      nullDeref |-> (manip = NULL) ]

\* SkySliderHandler::onValueChanged.
SkySliderHandler_onValueChanged(value, sky) ==
    [ ops |-> << SetDateTime(value) >>,
      nullDeref |-> (sky = NULL) ]

\* ToggleNodeHandler::onValueChanged: ~0 or 0 as the node mask.
ToggleNodeHandler_onValueChanged(node, value) ==
    [ ops |-> << SetNodeMask(node, IF value THEN "~0" ELSE "0") >> ]

\* ViewpointHandler::handle with the index taken from '0'.
ViewpointHandler_handle_IndexFromZero(ea, _viewpoints, manip, panel, vis) ==
    IF ea.type = "KEYDOWN"
    THEN LET index == ea.key - (Key1 - 1)
         IN  IF index >= 0 /\ index < Len(_viewpoints)
             THEN [ ops |-> << SetViewpoint(_viewpoints[index + 1],
                                            TransitionTenths) >>,
                    visible |-> vis, nullDeref |-> (manip = NULL),
                    ret |-> FALSE ]
             ELSE IF ea.key = KeyV
             THEN [ ops |-> << StoreViewpoint >>, visible |-> vis,
                    nullDeref |-> (manip = NULL), ret |-> FALSE ]
             ELSE IF ea.key = KeyQuestion
             THEN [ ops |-> << SetVisible(~vis) >>, visible |-> ~vis,
                    nullDeref |-> (panel = NULL), ret |-> FALSE ]
             ELSE [ ops |-> << >>, visible |-> vis, nullDeref |-> FALSE,
                    ret |-> FALSE ]
    ELSE [ ops |-> << >>, visible |-> vis, nullDeref |-> FALSE, ret |-> FALSE ]

\* ViewpointHandler::handle.
ViewpointHandler_handle(ea, _viewpoints, manip, panel, vis) ==
    IF ea.type = "KEYDOWN"
    THEN LET index == ea.key - Key1
         IN  IF index >= 0 /\ index < Len(_viewpoints)
             THEN [ ops |-> << SetViewpoint(_viewpoints[index + 1],
                                            TransitionTenths) >>,
                    visible |-> vis, nullDeref |-> (manip = NULL),
                    ret |-> FALSE ]
             ELSE IF ea.key = KeyV
             THEN [ ops |-> << StoreViewpoint >>, visible |-> vis,
                    nullDeref |-> (manip = NULL), ret |-> FALSE ]
             ELSE IF ea.key = KeyQuestion
             THEN [ ops |-> << SetVisible(~vis) >>, visible |-> ~vis,
                    nullDeref |-> (panel = NULL), ret |-> FALSE ]
             ELSE [ ops |-> << >>, visible |-> vis, nullDeref |-> FALSE,
                    ret |-> FALSE ]
    ELSE [ ops |-> << >>, visible |-> vis, nullDeref |-> FALSE, ret |-> FALSE ]

\* A piece of the label text: a literal, or a formatter's output for its
\* arguments.
Lit(s) == [piece |-> "lit", s |-> s, a |-> 0, b |-> 0]
MGRSFormat(lat, lon) == [piece |-> "MGRS", s |-> "PRECISION_1M", a |-> lat,
                         b |-> lon]
LatLongFormat(fmt, angle, precision) ==
    [piece |-> "LatLong", s |-> fmt, a |-> angle, b |-> precision]

\* The text MouseCoordsHandler composes for a terrain point.
CoordsText(lla, mgrs, dms) ==
    (IF mgrs
     THEN << Lit("MGRS: "), MGRSFormat(lla.y, lla.x), Lit("   ") >>
     ELSE << >>)
    \o (LET fFormat == IF dms THEN "FORMAT_DEGREES_MINUTES_SECONDS"
                       ELSE "FORMAT_DECIMAL_DEGREES"
        IN  << Lit("Lat: "), LatLongFormat(fFormat, lla.y, LatPrecision),
               Lit("  "),
               Lit("Lon: "), LatLongFormat(fFormat, lla.x, LonPrecision) >>)

\* MouseCoordsHandler::handle without the else branch that clears the text.
MouseCoordsHandler_handle_NoClear(ea, text, mgrs, dms) ==
    IF ea.type = "MOVE" \/ ea.type = "DRAG"
    THEN IF ea.pick # "miss"
         THEN LET t == CoordsText(MapPoint(ea.pick), mgrs, dms)
              IN  [ ops |-> << SetText(t) >>, text |-> t, ret |-> FALSE ]
         ELSE [ ops |-> << >>, text |-> text, ret |-> FALSE ]
    ELSE [ ops |-> << >>, text |-> text, ret |-> FALSE ]

\* MouseCoordsHandler::handle.
MouseCoordsHandler_handle(ea, text, mgrs, dms) ==
    IF ea.type = "MOVE" \/ ea.type = "DRAG"
    THEN IF ea.pick # "miss"
         THEN LET t == CoordsText(MapPoint(ea.pick), mgrs, dms)
              IN  [ ops |-> << SetText(t) >>, text |-> t, ret |-> FALSE ]
         ELSE [ ops |-> << SetText(<< >>) >>, text |-> << >>, ret |-> FALSE ]
    ELSE [ ops |-> << >>, text |-> text, ret |-> FALSE ]

Registered(h) == \E k \in 1..Len(eventHandlers) : eventHandlers[k] = h

\* One GUI event, given to the registered handlers in registration order.
DispatchEvent ==
    /\ pc = "running"
    /\ lastEvent = NoEvent
    /\ \E ea \in GUIEvents(Len(earthFile.viewpoints)) :
         LET none == [ ops |-> << >>, visible |-> visible, text |-> labelText,
                       nullDeref |-> FALSE, ret |-> FALSE ]
             r1 == IF Registered("ViewpointHandler")
                   THEN ViewpointHandler_handle(ea, vpHandlerViewpoints,
                                                s_manip, s_controlPanel,
                                                visible)
                   ELSE none
             r2 == IF Registered("MouseCoordsHandler")
                   THEN MouseCoordsHandler_handle(ea, labelText, s_mgrs, s_dms)
                   ELSE none
         IN  /\ lastEvent' = ea
             /\ ops' = r1.ops \o r2.ops
             /\ visible' = r1.visible
             /\ labelText' = r2.text
             /\ handled' = (r1.ret \/ r2.ret)
             /\ nullDeref' = (nullDeref \/ r1.nullDeref)
             /\ questionPresses' =
                   IF ea.type = "KEYDOWN" /\ ea.key = KeyQuestion
                   THEN (questionPresses + 1) % 2 ELSE questionPresses
             /\ lastMotion' = IF ea.type = "MOVE" \/ ea.type = "DRAG"
                              THEN ea.pick ELSE lastMotion
    /\ UNCHANGED <<inputs, pc, useAutoClip, useSky, kmlFile, earthNode,
                   mapNode, viewpoints, root, statics, cameraManipulator,
                   cullCallbacks, eventHandlers, skyAttached,
                   vpHandlerViewpoints, canvasControls, panelRows, panelSlider,
                   kmlRows, exitStatus, notice>>

ControlEvent(type, row, value) ==
    [kind |-> "control", type |-> type, key |-> row, pick |-> "miss",
     arg |-> value]

running == <<inputs, pc, useAutoClip, useSky, kmlFile, earthNode, mapNode,
             viewpoints, root, statics, cameraManipulator, cullCallbacks,
             eventHandlers, skyAttached, vpHandlerViewpoints, controls,
             exitStatus, notice, handled, questionPresses, lastMotion>>

\* A click on the name label of a row of the viewpoint grid.
ClickViewpointRow ==
    /\ pc = "running"
    /\ lastEvent = NoEvent
    /\ \E k \in 1..Len(panelRows.vp) :
         LET r == ClickViewpointHandler_onClick(panelRows.vp[k], s_manip)
         IN  /\ lastEvent' = ControlEvent("panelClick", k, 0)
             /\ ops' = r.ops
             /\ nullDeref' = (nullDeref \/ r.nullDeref)
    /\ UNCHANGED running

\* A click on the label of a KML annotation that has a viewpoint.
ClickKmlRow ==
    /\ pc = "running"
    /\ lastEvent = NoEvent
    /\ \E k \in 1..Len(kmlRows) :
         /\ kmlRows[k].clickable
         /\ LET r == ClickViewpointHandler_onClick(kmlRows[k].vp, s_manip)
            IN  /\ lastEvent' = ControlEvent("kmlClick", k, 0)
                /\ ops' = r.ops
                /\ nullDeref' = (nullDeref \/ r.nullDeref)
    /\ UNCHANGED running

\* The sky time slider is moved.
MoveSkySlider ==
    /\ pc = "running"
    /\ lastEvent = NoEvent
    /\ panelSlider
    /\ \E value \in {SliderMin, SliderMax} :
         LET r == SkySliderHandler_onValueChanged(value, s_sky)
         IN  /\ lastEvent' = ControlEvent("slider", 0, value)
             /\ ops' = r.ops
             /\ nullDeref' = (nullDeref \/ r.nullDeref)
    /\ UNCHANGED running

\* The checkbox of a KML annotation is switched.
ToggleKmlNode ==
    /\ pc = "running"
    /\ lastEvent = NoEvent
    /\ \E k \in 1..Len(kmlRows), value \in BOOLEAN :
         LET r == ToggleNodeHandler_onValueChanged(k, value)
         IN  /\ lastEvent' = ControlEvent("checkbox", k, IF value THEN 1 ELSE 0)
             /\ ops' = r.ops
    /\ UNCHANGED <<running, nullDeref>>

\* The event traversal of the frame is over; the loop waits for an event.
FrameDone ==
    /\ pc = "running"
    /\ lastEvent # NoEvent
    /\ lastEvent' = NoEvent
    /\ ops' = << >>
    /\ handled' = FALSE
    /\ UNCHANGED <<inputs, pc, useAutoClip, useSky, kmlFile, earthNode,
                   mapNode, viewpoints, root, statics, cameraManipulator,
                   cullCallbacks, eventHandlers, skyAttached,
                   vpHandlerViewpoints, controls, exitStatus, notice,
                   nullDeref, questionPresses, lastMotion>>

Next ==
    \/ ReadArguments
    \/ LoadEarthFile
    \/ SetCameraManipulator
    \/ ConfigureMapNode
    \/ ReadViewpoints
    \/ AddControlPanel
    \/ AddMouseCoords
    \/ LoadKML
    \/ RunViewer
    \/ DispatchEvent
    \/ ClickViewpointRow
    \/ ClickKmlRow
    \/ MoveSkySlider
    \/ ToggleKmlNode
    \/ FrameDone

Spec == Init /\ [][Next]_vars

SpecKeys == InitKeys /\ [][Next]_vars

(***************************************************************************)
(* Vocabulary of the properties.                                           *)
(***************************************************************************)
KeyDown(k) ==
    lastEvent.kind = "gui" /\ lastEvent.type = "KEYDOWN" /\ lastEvent.key = k

IsSetViewpoint(op) == op.call = "setViewpoint"
IsStore(op) == op.call = "getViewpoint;store(cout)"
IsSetVisible(op) == op.call = "setVisible"
IsSetText(op) == op.call = "setText"

\* The keys '0' .. '9'.
DigitKeys == (Key1 - 1)..(Key1 + 8)

\* The viewpoints of the scene file, in file order.
Loaded == earthFile.viewpoints

HasLine(lines, l) == \E k \in 1..Len(lines) : lines[k] = l
HasNode(nodes, n) == \E k \in 1..Len(nodes) : nodes[k] = n

RECURSIVE DecimalValue(_)
\* The number a digit string reads as.
DecimalValue(ds) ==
    IF Len(ds) = 0 THEN 0
    ELSE 10 * DecimalValue(SubSeq(ds, 1, Len(ds) - 1)) + ds[Len(ds)]

\* The positions of a literal in a label text.
LitAt(text, l) == { k \in 1..Len(text) : text[k] = Lit(l) }

(***************************************************************************)
(* C1: when the scene file fails to load, main prints the usage text and   *)
(* returns -1, and in that run the manipulator is never created, no event  *)
(* handler is registered and the main loop is never entered; when it       *)
(* loads, main never exits early: every state short of the main loop has a *)
(* next startup step, map node or not.                                     *)
(***************************************************************************)
C1_LoadFailureIsTheOnlyExit ==
    /\ ~earthFile.loads =>
          /\ s_manip = NULL /\ cameraManipulator = NULL
          /\ eventHandlers = << >>
          /\ pc \in {"arguments", "load", "exit"}
          /\ pc = "exit" =>
                /\ exitStatus = -1 /\ exitStatus < 0
                /\ HasLine(notice, "Unable to load earth model.")
                /\ HasLine(notice, "USAGE: osgearth_viewer [options] file.earth")
          /\ pc # "exit" => ENABLED Startup
    /\ earthFile.loads =>
          /\ pc # "exit" /\ exitStatus = 0 /\ notice = << >>
          /\ pc = "running" \/ ENABLED Startup

C1_Witness ==
    pc = "exit" /\ exitStatus = -1 /\ notice # << >> /\ s_manip = NULL

(***************************************************************************)
(* C2: with N >= 1 viewpoints loaded, a KEYDOWN of the digit d with        *)
(* 1 <= d <= N asks the manipulator for the d-th viewpoint of the scene    *)
(* file, and a KEYDOWN of any other digit asks it for no viewpoint.        *)
(***************************************************************************)
C2_DigitSelectsViewpoint ==
    (pc = "running" /\ Len(Loaded) >= 1 /\ lastEvent.kind = "gui"
       /\ lastEvent.type = "KEYDOWN" /\ lastEvent.key \in DigitKeys) =>
        LET d == lastEvent.key - (Key1 - 1)
        IN  IF 1 <= d /\ d <= Len(Loaded)
            THEN SelectSeq(ops, IsSetViewpoint)
                    = << SetViewpoint(Loaded[d], TransitionTenths) >>
            ELSE SelectSeq(ops, IsSetViewpoint) = << >>

C2_Witness ==
    /\ pc = "running" /\ Len(Loaded) >= 2 /\ KeyDown(Key1 + 1)
    /\ Loaded[2] # Loaded[1]
    /\ ops = << SetViewpoint(Loaded[2], TransitionTenths) >>

(***************************************************************************)
(* C3: in a run with a control panel, every KEYDOWN '?' inverts the        *)
(* panel's visibility and asks the manipulator for no viewpoint, so the    *)
(* panel is visible exactly when the number of '?' presses is even.        *)
(***************************************************************************)
C3_QuestionMarkTogglesPanel ==
    (pc = "running" /\ s_controlPanel # NULL) =>
        /\ visible <=> (questionPresses = 0)
        /\ KeyDown(KeyQuestion) =>
              /\ SelectSeq(ops, IsSetViewpoint) = << >>
              /\ SelectSeq(ops, IsSetVisible) = << SetVisible(visible) >>

(***************************************************************************)
(* C4: no callback dereferences an absent object: in the main loop the     *)
(* slider exists only with a sky node, click handlers and the key handler  *)
(* only with a manipulator, the key handler only with a control panel;     *)
(* the mouse handler is only made with a map node; and no step has         *)
(* dereferenced a null pointer.                                            *)
(***************************************************************************)
C4_NoAbsentObjectDereferenced ==
    /\ ~nullDeref
    /\ Registered("MouseCoordsHandler") => mapNode # NULL
    /\ pc = "running" =>
          /\ panelSlider => s_sky # NULL
          /\ (Len(panelRows.vp) > 0
                \/ (\E k \in 1..Len(kmlRows) : kmlRows[k].clickable)
                \/ Registered("ViewpointHandler")) => s_manip # NULL
          /\ Registered("ViewpointHandler") => s_controlPanel # NULL

C4_Witness ==
    /\ pc = "running" /\ KeyDown(KeyQuestion)
    /\ ops = << SetVisible(visible) >> /\ s_sky = NULL /\ ~nullDeref

(***************************************************************************)
(* C5: s_manip, s_sky and s_controlPanel are each assigned at most once,   *)
(* before the main loop, and in the main loop no step changes them or the  *)
(* flags s_dms, s_mgrs, s_ocean.                                           *)
(***************************************************************************)
C5_StaticsSetOnceAtStartup ==
    [][ /\ s_manip' # s_manip => (s_manip = NULL /\ pc # "running")
        /\ s_sky' # s_sky => (s_sky = NULL /\ pc # "running")
        /\ s_controlPanel' # s_controlPanel =>
              (s_controlPanel = NULL /\ pc # "running")
        /\ pc = "running" => statics' = statics ]_vars

C5_Witness ==
    /\ pc = "running" /\ s_manip # NULL /\ s_sky # NULL
    /\ s_controlPanel # NULL /\ lastEvent.kind = "control"
    /\ lastEvent.type = "slider"

(***************************************************************************)
(* C6: (as stated) with --sky and a scene file that loads, the sky node    *)
(* is created, attached to the viewer and added to the root, and the       *)
(* control panel has the time slider.                                      *)
(***************************************************************************)
SkyActive ==
    /\ s_sky # NULL /\ skyAttached /\ HasNode(root, "SkyNode")
    /\ s_controlPanel # NULL /\ panelSlider

C6_SkyFlagActivatesSky ==
    (pc = "running" /\ argv.sky /\ earthFile.loads) => SkyActive

(***************************************************************************)
(* C6 (amended): with --sky and a scene file that loads and holds a        *)
(* geocentric map, the sky node is created, attached and added to the      *)
(* root, and the control panel has the time slider.                        *)
(***************************************************************************)
C6_SkyFlagActivatesSkyOnGeocentricMap ==
    (pc = "running" /\ argv.sky /\ earthFile.loads /\ earthFile.hasMap
       /\ earthFile.geocentric) => SkyActive

C6_Witness ==
    /\ pc = "running" /\ argv.sky /\ earthFile.geocentric
    /\ earthFile.sky = "none" /\ SkyActive

(***************************************************************************)
(* C7: (as stated) with --autoclip and a scene file that loads, the        *)
(* AutoClipPlaneCallback is installed on the camera, whatever the scene    *)
(* file's externals say.                                                   *)
(***************************************************************************)
AutoClipInstalled == HasNode(cullCallbacks, "AutoClipPlaneCallback")

C7_AutoClipFlagInstallsCallback ==
    (pc = "running" /\ argv.autoclip /\ earthFile.loads) => AutoClipInstalled

(***************************************************************************)
(* C7 (amended): with --autoclip and a scene file that loads and holds a   *)
(* geocentric map, the AutoClipPlaneCallback is installed unless the       *)
(* file's autoclip external reads false while neither the sky nor the      *)
(* ocean is active.                                                        *)
(***************************************************************************)
C7_AutoClipFlagInstallsCallbackUnlessOverridden ==
    (pc = "running" /\ argv.autoclip /\ earthFile.loads /\ earthFile.hasMap
       /\ earthFile.geocentric
       /\ (earthFile.autoclip # "false" \/ s_sky # NULL \/ s_ocean))
    => AutoClipInstalled

C7_Witness ==
    /\ pc = "running" /\ argv.autoclip /\ earthFile.autoclip = "auto"
    /\ s_sky = NULL /\ ~s_ocean /\ AutoClipInstalled

(***************************************************************************)
(* C8: every KEYDOWN 'v' that ViewpointHandler is given stores the         *)
(* manipulator's viewpoint to standard output and neither asks for a       *)
(* viewpoint nor toggles the panel, for any number of viewpoints; an event *)
(* makes ViewpointHandler do at most one of set viewpoint, store           *)
(* viewpoint, toggle panel, and a non-KEYDOWN event none.                  *)
(***************************************************************************)
ViewpointHandlerOps ==
    SelectSeq(ops, LAMBDA op : IsSetViewpoint(op) \/ IsStore(op)
                                  \/ IsSetVisible(op))

C8_VPrintsAndOnlyPrints ==
    (pc = "running" /\ Registered("ViewpointHandler")
       /\ lastEvent.kind = "gui") =>
        /\ KeyDown(KeyV) => ViewpointHandlerOps = << StoreViewpoint >>
        /\ Len(ViewpointHandlerOps) <= 1
        /\ lastEvent.type # "KEYDOWN" => ViewpointHandlerOps = << >>

(***************************************************************************)
(* C9: the panel has one row per loaded viewpoint, in load order; row i+1  *)
(* shows the number i+1, and a click on its name label and a KEYDOWN of    *)
(* the key '1'+i make the same request: that viewpoint, 4.5 seconds.       *)
(***************************************************************************)
C9_RowAndKeyAgree ==
    (pc = "running" /\ Len(Loaded) > 0) =>
        /\ Len(panelRows.num) = Len(Loaded)
        /\ Len(panelRows.text) = Len(Loaded)
        /\ Len(panelRows.vp) = Len(Loaded)
        /\ \A i \in 0..(Len(Loaded) - 1) :
              /\ DecimalValue(panelRows.num[i + 1]) = i + 1
              /\ panelRows.vp[i + 1] = Loaded[i + 1]
              /\ (lastEvent = ControlEvent("panelClick", i + 1, 0)
                    \/ KeyDown(Key1 + i)) =>
                    ops = << SetViewpoint(Loaded[i + 1], TransitionTenths) >>

C9_Witness ==
    /\ pc = "running" /\ Len(Loaded) >= 10
    /\ lastEvent = ControlEvent("panelClick", 10, 0)
    /\ panelRows.num[10] = << 1, 0 >>
    /\ ops = << SetViewpoint(Loaded[10], TransitionTenths) >>

(***************************************************************************)
(* C10: the mouse-coordinate label shows the most recent MOVE or DRAG      *)
(* only: empty when it missed the terrain (or none happened), otherwise a  *)
(* text with "Lat: " and "Lon: ", led by "MGRS: " exactly when --mgrs was  *)
(* given; other events do not set the label; no event is consumed.         *)
(***************************************************************************)
C10_LabelShowsLastMotion ==
    (pc = "running" /\ Registered("MouseCoordsHandler")) =>
        /\ ~handled
        /\ lastMotion \in {"none", "miss"} => labelText = << >>
        /\ lastMotion \notin {"none", "miss"} =>
              /\ labelText = CoordsText(MapPoint(lastMotion), s_mgrs, s_dms)
              /\ LitAt(labelText, "Lat: ") # {}
              /\ LitAt(labelText, "Lon: ") # {}
              /\ argv.mgrs <=> (labelText[1] = Lit("MGRS: "))
              /\ argv.mgrs <=> (LitAt(labelText, "MGRS: ") # {})
        /\ (lastEvent.kind = "gui" /\ lastEvent.type \notin {"MOVE", "DRAG"})
              => SelectSeq(ops, IsSetText) = << >>

C10_Witness ==
    /\ pc = "running" /\ lastEvent.kind = "gui" /\ lastEvent.type = "PUSH"
    /\ lastEvent.pick = "miss" /\ lastMotion = "p1" /\ argv.mgrs
    /\ labelText # << >>

====
